---- MODULE Spec2Model ----
(***************************************************************************)
(* State-machine model of src/chain-integrations.py: the three UTXO        *)
(* wallets (AlephiumWallet, BitcoinWallet, CardanoWallet), their           *)
(* create_utxo / spend_utxos / get_balance / broadcast_transaction         *)
(* operations and AlephiumWallet.sync_wallet.                              *)
(*                                                                         *)
(* A Python dict is insertion ordered: it is modelled as a sequence of     *)
(* entries with pairwise distinct keys.  Assigning to an existing key      *)
(* keeps the entry's position, assigning to a new key appends, del         *)
(* removes the entry.                                                      *)
(***************************************************************************)
EXTENDS Integers, Sequences, FiniteSets, TLC

\* ---------------------------------------------------------------- bounds
\* Largest amount of a created or fetched output, and of a spend target + 1.
MaxAmount == 2
\* Most negative spend target is -MaxNeg.
MaxNeg == 1
\* An on-chain transaction has the outputs 0 .. MaxIndex.
MaxIndex == 1
\* create_utxo is called with shard_id in 0 .. MaxShardArg.
MaxShardArg == 0
\* No stored output carries more than MaxStored (a negative target mints value
\* without end otherwise).
MaxStored == 4

\* ------------------------------------------------------ program constants
\* determine_shard_id: hash(address) % 4
NumShards == 4

VARIABLES
    wallet,         \* the class of the wallet object
    sharded_utxos,  \* AlephiumWallet.sharded_utxos: dict shard_id -> dict txid -> utxo
    utxos,          \* BitcoinWallet.utxos / CardanoWallet.utxos: dict txid -> utxo
    addresses,      \* AlephiumWallet.addresses, read by sync_wallet, never set by the class
    hashseed,       \* the process's string-hash seed (fixed for the life of the process)
    pending,        \* the identifiers of the inputs of the latest returned plan, until it is broadcast
    last,           \* the last call: its name, its arguments, what it raised
    pc,             \* per thread: position inside BitcoinWallet.spend_utxos (SpecConc)
    frame           \* per thread: the locals of that call (SpecConc)

vars == <<wallet, sharded_utxos, utxos, addresses, hashseed, pending, last, pc, frame>>

\* ----------------------------------------------------------------- values
IntStr(n) ==
    CASE n = 0 -> "0" [] n = 1 -> "1" [] n = 2 -> "2" [] n = 3 -> "3" [] n = 4 -> "4"
      [] n = 5 -> "5" [] n = 6 -> "6" [] n = 7 -> "7" [] n = 8 -> "8" [] n = 9 -> "9"

\* a transaction id that leaves the shard out
AlephiumTxidNoShard(shard_id) == "alephium_txid_example"

\* f"alephium_txid_shard_{shard_id}_example"
AlephiumTxid(shard_id) == "alephium_txid_shard_" \o IntStr(shard_id) \o "_example"

BtcTxid == "btc_txid_example"

CardanoTxid == "cardano_txid_example"

\* f"tx_{n}": the transaction ids the chain backend reports
ChainTxid(n) == "tx_" \o IntStr(n)

\* hash(address): any function of the address, fixed per process by the seed.
\* Seed 0 puts addr_x and addr_y in shard 0 and the recipient in shard 1; seed 1
\* puts addr_y in shard 1, addr_x and the recipient in shard 0.
StrHash(seed, address) ==
    CASE address = "addr_x" -> 8
      [] address = "addr_y" -> 12 + seed
      [] address = "new_recipient_address" -> 5 - seed
      [] address = "my_address" -> 7
      [] OTHER -> 2

HashSeeds == {0, 1}

\* The two addresses the wallet is told to sync.
WalletAddresses == <<"addr_y", "addr_x">>

CreateRecipients == {"addr_x"}

SpendRecipients == {"new_recipient_address"}

Amounts == 0..MaxAmount

Targets == (0 - MaxNeg)..(MaxAmount + 1)

ShardArgs == 0..MaxShardArg

NoUtxos == <<>>

\* ------------------------------------------------------------ dict helpers
\* key in d
HasKey(d, txid) == \E i \in 1..Len(d) : d[i].txid = txid

\* d[utxo["txid"]] = utxo
DictSet(d, utxo) ==
    IF HasKey(d, utxo.txid)
    THEN [i \in 1..Len(d) |-> IF d[i].txid = utxo.txid THEN utxo ELSE d[i]]
    ELSE Append(d, utxo)

\* del d[txid]
DictDel(d, txid) == SelectSeq(d, LAMBDA e : e.txid # txid)

\* {utxo["txid"]: utxo for utxo in fetched_utxos}
RECURSIVE DictFromList(_, _)
DictFromList(d, fetched_utxos) ==
    IF fetched_utxos = <<>> THEN d
    ELSE DictFromList(DictSet(d, Head(fetched_utxos)), Tail(fetched_utxos))

\* shard_id in self.sharded_utxos
HasShard(store, shard_id) == \E i \in 1..Len(store) : store[i].shard_id = shard_id

\* self.sharded_utxos[shard_id] (the empty dict when the key is absent)
ShardOf(store, shard_id) ==
    IF HasShard(store, shard_id)
    THEN (CHOOSE i \in 1..Len(store) : store[i].shard_id = shard_id)
    ELSE 0

ShardUtxos(store, shard_id) ==
    IF HasShard(store, shard_id) THEN store[ShardOf(store, shard_id)].utxos ELSE NoUtxos

\* self.sharded_utxos[shard_id] = d
SetShard(store, shard_id, d) ==
    IF HasShard(store, shard_id)
    THEN [i \in 1..Len(store) |->
            IF store[i].shard_id = shard_id THEN [shard_id |-> shard_id, utxos |-> d]
            ELSE store[i]]
    ELSE Append(store, [shard_id |-> shard_id, utxos |-> d])

RECURSIVE SumAmounts(_)
SumAmounts(us) == IF us = <<>> THEN 0 ELSE Head(us).amount + SumAmounts(Tail(us))

\* every utxo of every shard, in dict iteration order
RECURSIVE AllUtxos(_)
AllUtxos(store) == IF store = <<>> THEN <<>> ELSE Head(store).utxos \o AllUtxos(Tail(store))

\* ---------------------------------------------------------- AlephiumWallet
determine_shard_id(seed, address) == StrHash(seed, address) % NumShards

AlephiumUtxo(txid, index, amount, recipient, shard_id) ==
    [txid |-> txid, index |-> index, amount |-> amount,
     recipient |-> recipient, shard_id |-> shard_id]

\* the utxo create_utxo builds
NewAlephiumUtxo(amount, recipient_address, shard_id) ==
    AlephiumUtxo(AlephiumTxid(shard_id), 0, amount, recipient_address, shard_id)

\* the store after create_utxo
StoreCreate(store, amount, recipient_address, shard_id) ==
    SetShard(store, shard_id,
             DictSet(ShardUtxos(store, shard_id),
                     NewAlephiumUtxo(amount, recipient_address, shard_id)))

AlephiumBalance(store) == SumAmounts(AllUtxos(store))

\* the inner loop of spend_utxos over list(shard_utxos.items()): append, add, del,
\* stop once total >= amount
RECURSIVE ScanItems(_, _, _, _, _)
ScanItems(items, shard_utxos, selected, total, amount) ==
    IF items = <<>>
    THEN [utxos |-> shard_utxos, selected |-> selected, total |-> total]
    ELSE LET utxo == Head(items)
             sel == Append(selected, utxo)
             tot == total + utxo.amount
             rest == DictDel(shard_utxos, utxo.txid)
         IN IF tot >= amount
            THEN [utxos |-> rest, selected |-> sel, total |-> tot]
            ELSE ScanItems(Tail(items), rest, sel, tot, amount)

\* the outer loop of spend_utxos over list(self.sharded_utxos.items())
RECURSIVE ScanShards(_, _, _, _, _)
ScanShards(shards, store, selected, total, amount) ==
    IF shards = <<>>
    THEN [store |-> store, selected |-> selected, total |-> total]
    ELSE LET sh == Head(shards)
             r == ScanItems(sh.utxos, ShardUtxos(store, sh.shard_id), selected, total, amount)
             st == SetShard(store, sh.shard_id, r.utxos)
         IN IF r.total >= amount
            THEN [store |-> st, selected |-> r.selected, total |-> r.total]
            ELSE ScanShards(Tail(shards), st, r.selected, r.total, amount)

\* a call record: inputs and change are the plan's parts of the list ret that
\* spend_utxos returns ([new_utxo] + selected_utxos)
NoCall == [op |-> "__init__", amount |-> 0, recipient_address |-> "", shard_id |-> 0,
           raised |-> "None", ret |-> <<>>, inputs |-> <<>>, change |-> <<>>]

Call(op, amount, recipient_address, shard_id, raised) ==
    [NoCall EXCEPT !.op = op, !.amount = amount, !.recipient_address = recipient_address,
                   !.shard_id = shard_id, !.raised = raised]

SpendCall(amount, recipient_address, r) ==
    [NoCall EXCEPT !.op = "spend_utxos", !.amount = amount,
                   !.recipient_address = recipient_address, !.raised = r.raised,
                   !.ret = r.ret, !.inputs = r.inputs, !.change = r.change]

\* AlephiumWallet.spend_utxos as one call: the store it leaves and what it returns
AlephiumSpend(store, seed, amount, recipient_address) ==
    LET scan == ScanShards(store, store, <<>>, 0, amount)
        recipient_shard_id == determine_shard_id(seed, recipient_address)
        new_utxo == NewAlephiumUtxo(amount, recipient_address, recipient_shard_id)
        st1 == StoreCreate(scan.store, amount, recipient_address, recipient_shard_id)
        change == scan.total - amount
        change_utxo == NewAlephiumUtxo(change, "my_address", recipient_shard_id)
        st2 == StoreCreate(st1, change, "my_address", recipient_shard_id)
    IN IF scan.total < amount
       THEN [store |-> scan.store, raised |-> "ValueError", ret |-> <<>>,
             inputs |-> <<>>, change |-> <<>>]
       ELSE IF scan.total > amount
       THEN [store |-> st2, raised |-> "None",
             ret |-> <<new_utxo>> \o Append(scan.selected, change_utxo),
             inputs |-> scan.selected, change |-> <<change_utxo>>]
       ELSE [store |-> st1, raised |-> "None", ret |-> <<new_utxo>> \o scan.selected,
             inputs |-> scan.selected, change |-> <<>>]

\* sync_wallet with the fetched outputs added to the shard's entries instead of
\* replacing them
RECURSIVE SyncLoopExtend(_, _, _, _)
SyncLoopExtend(store, seed, addrs, fetched) ==
    IF addrs = <<>> THEN store
    ELSE SyncLoopExtend(SetShard(store, determine_shard_id(seed, Head(addrs)),
                                 ShardUtxos(store, determine_shard_id(seed, Head(addrs)))
                                   \o DictFromList(<<>>, Head(fetched))),
                        seed, Tail(addrs), Tail(fetched))

\* the loop of sync_wallet: each address's shard is replaced by its fetched snapshot
RECURSIVE SyncLoop(_, _, _, _)
SyncLoop(store, seed, addrs, fetched) ==
    IF addrs = <<>> THEN store
    ELSE SyncLoop(SetShard(store, determine_shard_id(seed, Head(addrs)),
                           DictFromList(<<>>, Head(fetched))),
                  seed, Tail(addrs), Tail(fetched))

\* ------------------------------------------------------- the chain backend
\* fetch_utxos_from_chain stands for a node query; the outputs that exist on chain
\* are a fixed universe: transaction tx_n pays addr_x when n is odd and addr_y when
\* n is even, output (n, i) carries an amount in 0 .. MaxAmount that drops by one
\* from an output to the next (modulo MaxAmount + 1).
ChainOwner(n) == IF n % 2 = 1 THEN "addr_x" ELSE "addr_y"

ChainAmount(n, i) == (2 * (MaxAmount + 1) - n - i) % (MaxAmount + 1)

\* the transactions tx_1, tx_2 exist on chain
ChainTxs == {1, 2}

ChainIndexes == 0..MaxIndex

\* the (n, i) of the outputs of `address`
ChainOutputs(address) ==
    { p \in ChainTxs \X ChainIndexes : ChainOwner(p[1]) = address }

\* the outputs P listed in (transaction, index) order
RECURSIVE Listing(_, _, _)
Listing(P, address, shard_id) ==
    IF P = {} THEN <<>>
    ELSE LET p == CHOOSE q \in P : \A o \in P : q[1] < o[1] \/ (q[1] = o[1] /\ q[2] <= o[2])
         IN <<AlephiumUtxo(ChainTxid(p[1]), p[2], ChainAmount(p[1], p[2]), address, shard_id)>>
            \o Listing(P \ {p}, address, shard_id)

\* what fetch_utxos_from_chain(address, shard_id) may return: a listing of some of
\* the outputs of the address, those that are unspent on chain
FetchChoices(address, shard_id) ==
    { Listing(P, address, shard_id) :
        P \in SUBSET ChainOutputs(address) }

\* one snapshot per synced address, in the order of self.addresses
RECURSIVE FetchAll(_, _)
FetchAll(seed, addrs) ==
    IF addrs = <<>> THEN {<<>>}
    ELSE { <<f>> \o rest :
             f \in FetchChoices(Head(addrs), determine_shard_id(seed, Head(addrs))),
             rest \in FetchAll(seed, Tail(addrs)) }

\* the snapshots the backend may hand to one sync_wallet, per hash seed
Snapshots == [seed \in HashSeeds |-> FetchAll(seed, WalletAddresses)]

Identifier(utxo) == <<utxo.txid, utxo.index>>

Identifiers(us) == { Identifier(us[i]) : i \in 1..Len(us) }

\* ------------------------------------------- BitcoinWallet, CardanoWallet
NewBtcUtxo(amount, recipient_address) ==
    [txid |-> BtcTxid, index |-> 0, amount |-> amount, recipient |-> recipient_address]

NewCardanoUtxo(amount, recipient_address) ==
    [txid |-> CardanoTxid, index |-> 0, amount |-> amount,
     recipient |-> recipient_address, datum |-> "None"]

NewFlatUtxo(kind, amount, recipient_address) ==
    IF kind = "BitcoinWallet" THEN NewBtcUtxo(amount, recipient_address)
    ELSE NewCardanoUtxo(amount, recipient_address)

\* BitcoinWallet.spend_utxos / CardanoWallet.spend_utxos as one call
FlatSpend(kind, d, amount, recipient_address) ==
    LET scan == ScanItems(d, d, <<>>, 0, amount)
        new_utxo == NewFlatUtxo(kind, amount, recipient_address)
    IN IF scan.total < amount
       THEN [store |-> scan.utxos, raised |-> "ValueError", ret |-> <<>>,
             inputs |-> <<>>, change |-> <<>>]
       ELSE [store |-> DictSet(scan.utxos, new_utxo), raised |-> "None",
             ret |-> <<new_utxo>> \o scan.selected,
             inputs |-> scan.selected, change |-> <<>>]

FlatBalance(d) == SumAmounts(d)

\* ------------------------------------------------------------------ state
Threads == {1, 2}

\* the locals of one spend_utxos call; items is what is left of the list the for
\* loop iterates
NoFrame == [amount |-> 0, recipient_address |-> "", items |-> <<>>, txid |-> "",
            selected |-> <<>>, total |-> 0, raised |-> "None", ret |-> <<>>]

Init ==
    /\ wallet \in {"AlephiumWallet", "BitcoinWallet", "CardanoWallet"}
    /\ sharded_utxos = <<>>
    /\ utxos = <<>>
    /\ addresses \in IF wallet = "AlephiumWallet"
                     THEN {[present |-> FALSE, value |-> <<>>],
                           [present |-> TRUE, value |-> WalletAddresses]}
                     ELSE {[present |-> FALSE, value |-> <<>>]}
    /\ hashseed \in IF wallet = "AlephiumWallet" THEN HashSeeds ELSE {0}
    /\ pending = {}
    /\ last = NoCall
    /\ pc = [t \in Threads |-> "idle"]
    /\ frame = [t \in Threads |-> NoFrame]

\* the snapshots the backend may hand to the next sync_wallet
Fetched == IF addresses.present THEN Snapshots[hashseed] ELSE {<<>>}

\* the model's bounds on a call's outcome
Capped(us) == \A i \in 1..Len(us) : us[i].amount <= MaxStored

\* the caller keeps the plan a successful spend_utxos returns
InFlight(plan, r) == IF r.raised = "None" THEN Identifiers(r.inputs) ELSE plan

\* AlephiumWallet.create_utxo(amount, recipient_address, shard_id)
create_utxo(amount, recipient_address, shard_id) ==
    /\ wallet = "AlephiumWallet"
    /\ sharded_utxos' = StoreCreate(sharded_utxos, amount, recipient_address, shard_id)
    /\ last' = [Call("create_utxo", amount, recipient_address, shard_id, "None")
                  EXCEPT !.ret = <<NewAlephiumUtxo(amount, recipient_address, shard_id)>>]
    /\ UNCHANGED <<wallet, utxos, addresses, hashseed, pending, pc, frame>>

\* AlephiumWallet.spend_utxos(amount, recipient_address)
spend_utxos(amount, recipient_address) ==
    /\ wallet = "AlephiumWallet"
    /\ LET r == AlephiumSpend(sharded_utxos, hashseed, amount, recipient_address)
       IN /\ Capped(AllUtxos(r.store))
          /\ sharded_utxos' = r.store
          /\ pending' = InFlight(pending, r)
          /\ last' = SpendCall(amount, recipient_address, r)
    /\ UNCHANGED <<wallet, utxos, addresses, hashseed, pc, frame>>

\* AlephiumWallet.sync_wallet(): self.addresses is read before anything is written
sync_wallet(fetched) ==
    /\ wallet = "AlephiumWallet"
    /\ IF addresses.present
       THEN /\ sharded_utxos' = SyncLoop(sharded_utxos, hashseed, addresses.value, fetched)
            /\ last' = Call("sync_wallet", 0, "", 0, "None")
       ELSE /\ sharded_utxos' = sharded_utxos
            /\ last' = Call("sync_wallet", 0, "", 0, "AttributeError")
    /\ UNCHANGED <<wallet, utxos, addresses, hashseed, pending, pc, frame>>

\* broadcast_transaction(transaction): returns an id and touches no state of the
\* wallet; the caller's plan stops being in flight
broadcast_transaction ==
    /\ pending # {}
    /\ pending' = {}
    /\ last' = Call("broadcast_transaction", 0, "", 0, "None")
    /\ UNCHANGED <<wallet, sharded_utxos, utxos, addresses, hashseed, pc, frame>>

\* BitcoinWallet.create_utxo / CardanoWallet.create_utxo
flat_create_utxo(amount, recipient_address) ==
    /\ wallet \in {"BitcoinWallet", "CardanoWallet"}
    /\ utxos' = DictSet(utxos, NewFlatUtxo(wallet, amount, recipient_address))
    /\ last' = [Call("create_utxo", amount, recipient_address, 0, "None")
                  EXCEPT !.ret = <<NewFlatUtxo(wallet, amount, recipient_address)>>]
    /\ UNCHANGED <<wallet, sharded_utxos, addresses, hashseed, pending, pc, frame>>

\* BitcoinWallet.spend_utxos / CardanoWallet.spend_utxos
flat_spend_utxos(amount, recipient_address) ==
    /\ wallet \in {"BitcoinWallet", "CardanoWallet"}
    /\ LET r == FlatSpend(wallet, utxos, amount, recipient_address)
       IN /\ utxos' = r.store
          /\ pending' = InFlight(pending, r)
          /\ last' = SpendCall(amount, recipient_address, r)
    /\ UNCHANGED <<wallet, sharded_utxos, addresses, hashseed, pc, frame>>

Next ==
    \/ \E amount \in Amounts, r \in CreateRecipients, shard_id \in ShardArgs :
          create_utxo(amount, r, shard_id)
    \/ \E amount \in Targets, r \in SpendRecipients : spend_utxos(amount, r)
    \/ \E fetched \in Fetched : sync_wallet(fetched)
    \/ broadcast_transaction
    \/ \E amount \in Amounts, r \in CreateRecipients : flat_create_utxo(amount, r)
    \/ \E amount \in Targets, r \in SpendRecipients : flat_spend_utxos(amount, r)

Spec == Init /\ [][Next]_vars

\* --------------------------------------- concurrent calls of spend_utxos
\* BitcoinWallet.spend_utxos / CardanoWallet.spend_utxos run by several threads,
\* one statement at a time: the code takes no lock, so threads interleave between
\* statements.

\* the call starts: selected_utxos = [], total = 0, list(self.utxos.items())
SpendEnter(t, amount, recipient_address) ==
    /\ wallet \in {"BitcoinWallet", "CardanoWallet"}
    /\ pc[t] = "idle"
    /\ frame' = [frame EXCEPT ![t] = [NoFrame EXCEPT !.amount = amount,
                                        !.recipient_address = recipient_address,
                                        !.items = utxos]]
    /\ pc' = [pc EXCEPT ![t] = "for"]
    /\ UNCHANGED <<wallet, sharded_utxos, utxos, addresses, hashseed, pending, last>>

\* the next iteration: selected_utxos.append(utxo); total += utxo["amount"]
SpendSelect(t) ==
    /\ pc[t] = "for"
    /\ IF frame[t].items = <<>>
       THEN /\ pc' = [pc EXCEPT ![t] = "check"]
            /\ frame' = frame
       ELSE LET utxo == Head(frame[t].items)
            IN /\ frame' = [frame EXCEPT ![t].items = Tail(@), ![t].txid = utxo.txid,
                                         ![t].selected = Append(@, utxo),
                                         ![t].total = @ + utxo.amount]
               /\ pc' = [pc EXCEPT ![t] = "del"]
    /\ UNCHANGED <<wallet, sharded_utxos, utxos, addresses, hashseed, pending, last>>

\* del self.utxos[txid] (KeyError when another call removed it), then the break test
SpendDel(t) ==
    /\ pc[t] = "del"
    /\ IF HasKey(utxos, frame[t].txid)
       THEN /\ utxos' = DictDel(utxos, frame[t].txid)
            /\ pc' = [pc EXCEPT ![t] = IF frame[t].total >= frame[t].amount
                                       THEN "check" ELSE "for"]
            /\ frame' = frame
       ELSE /\ utxos' = utxos
            /\ pc' = [pc EXCEPT ![t] = "raised"]
            /\ frame' = [frame EXCEPT ![t].raised = "KeyError"]
    /\ UNCHANGED <<wallet, sharded_utxos, addresses, hashseed, pending, last>>

\* if total < amount: raise ValueError("Insufficient funds")
SpendCheck(t) ==
    /\ pc[t] = "check"
    /\ IF frame[t].total < frame[t].amount
       THEN /\ pc' = [pc EXCEPT ![t] = "raised"]
            /\ frame' = [frame EXCEPT ![t].raised = "ValueError"]
       ELSE /\ pc' = [pc EXCEPT ![t] = "create"]
            /\ frame' = frame
    /\ UNCHANGED <<wallet, sharded_utxos, utxos, addresses, hashseed, pending, last>>

\* new_utxo = self.create_utxo(amount, recipient_address)
SpendCreate(t) ==
    /\ pc[t] = "create"
    /\ utxos' = DictSet(utxos, NewFlatUtxo(wallet, frame[t].amount, frame[t].recipient_address))
    /\ pc' = [pc EXCEPT ![t] = "return"]
    /\ UNCHANGED <<wallet, sharded_utxos, addresses, hashseed, pending, last, frame>>

\* return [new_utxo] + selected_utxos
SpendReturn(t) ==
    /\ pc[t] = "return"
    /\ frame' = [frame EXCEPT ![t].ret =
                   <<NewFlatUtxo(wallet, frame[t].amount, frame[t].recipient_address)>>
                     \o frame[t].selected]
    /\ pc' = [pc EXCEPT ![t] = "done"]
    /\ UNCHANGED <<wallet, sharded_utxos, utxos, addresses, hashseed, pending, last>>

InitConc == Init /\ wallet \in {"BitcoinWallet", "CardanoWallet"}

NextConc ==
    \/ \E amount \in Amounts, r \in CreateRecipients : flat_create_utxo(amount, r)
    \/ \E t \in Threads, amount \in Targets, r \in SpendRecipients : SpendEnter(t, amount, r)
    \/ \E t \in Threads : SpendSelect(t)
    \/ \E t \in Threads : SpendDel(t)
    \/ \E t \in Threads : SpendCheck(t)
    \/ \E t \in Threads : SpendCreate(t)
    \/ \E t \in Threads : SpendReturn(t)

SpecConc == InitConc /\ [][NextConc]_vars

\* ------------------------------------- a backend that revises its reports
\* fetch_utxos_from_chain draws "amount" anew on every call: the record reported
\* for an output may differ, in the amount, from the record reported before.
RECURSIVE Reports(_, _, _)
Reports(P, address, shard_id) ==
    IF P = {} THEN {<<>>}
    ELSE LET p == CHOOSE q \in P : \A o \in P : q[1] < o[1] \/ (q[1] = o[1] /\ q[2] <= o[2])
         IN { <<AlephiumUtxo(ChainTxid(p[1]), p[2], a, address, shard_id)>> \o rest :
                a \in 1..MaxAmount, rest \in Reports(P \ {p}, address, shard_id) }

FetchReports(address, shard_id) ==
    UNION { Reports(P, address, shard_id) : P \in SUBSET ChainOutputs(address) }

RECURSIVE FetchAllReports(_, _)
FetchAllReports(seed, addrs) ==
    IF addrs = <<>> THEN {<<>>}
    ELSE { <<f>> \o rest :
             f \in FetchReports(Head(addrs), determine_shard_id(seed, Head(addrs))),
             rest \in FetchAllReports(seed, Tail(addrs)) }

ReportSnapshots == [seed \in HashSeeds |-> FetchAllReports(seed, WalletAddresses)]

Reported == IF addresses.present THEN ReportSnapshots[hashseed] ELSE {<<>>}

InitReports == Init /\ wallet = "AlephiumWallet"

NextReports ==
    \/ \E fetched \in Reported : sync_wallet(fetched)
    \/ \E amount \in Targets, r \in SpendRecipients : spend_utxos(amount, r)
    \/ broadcast_transaction

SpecReports == InitReports /\ [][NextReports]_vars

\* ------------------------------------------------------------ the claims
SpendSucceeded(call) == call.op = "spend_utxos" /\ call.raised = "None"

\* the store the wallet object holds, and get_balance() of it
Store == IF wallet = "AlephiumWallet" THEN sharded_utxos ELSE utxos

StoreUtxos(kind, store) == IF kind = "AlephiumWallet" THEN AllUtxos(store) ELSE store

get_balance(kind, store) ==
    IF kind = "AlephiumWallet" THEN AlephiumBalance(store) ELSE FlatBalance(store)

AllPositive(us) == \A i \in 1..Len(us) : us[i].amount > 0

Range(us) == { us[i] : i \in 1..Len(us) }

\* the store's outputs owned by an address, and the balance held for it
OwnedBy(store, address) == { u \in Range(AllUtxos(store)) : u.recipient = address }

BalanceOf(store, address) ==
    SumAmounts(SelectSeq(AllUtxos(store), LAMBDA u : u.recipient = address))

\* the wallet's own addresses: the change address and the synced ones
OwnAddresses == {"my_address"} \cup Range(WalletAddresses)

\* C1. Conservation: the amounts of the inputs of every plan a successful
\* spend_utxos returns add up to the recipient output's amount plus the change
\* output's amount (0 when the plan has no change output).  Stated for positive
\* targets.
C1_Conservation ==
    (SpendSucceeded(last) /\ last.amount > 0) =>
        SumAmounts(last.inputs) = last.ret[1].amount + SumAmounts(last.change)

\* C2. Insufficient funds leaves the store unchanged: a spend_utxos whose target
\* exceeds the balance raises, and the store after the call is the store before
\* it.  Stated for stores that hold positive amounts only.
C2_InsufficientFundsLeavesStore ==
    [][ (last'.op = "spend_utxos" /\ AllPositive(StoreUtxos(wallet, Store))
         /\ last'.amount > get_balance(wallet, Store))
          => (last'.raised = "ValueError" /\ Store' = Store) ]_vars

NoPendingInStore(store) == pending \cap Identifiers(AllUtxos(store)) = {}

\* C3. No double count: after a successful spend_utxos (positive target, inputs
\* of positive amount) none of the plan's input identifiers is in the store, and
\* the sync_wallet that follows while the plan is in flight brings none of them
\* back.
C3_NoDoubleCount ==
    [][ (SpendSucceeded(last) /\ last.amount > 0 /\ AllPositive(last.inputs)
         /\ pending = Identifiers(last.inputs) /\ NoPendingInStore(sharded_utxos)
         /\ last'.op = "sync_wallet")
          => NoPendingInStore(sharded_utxos') ]_vars

\* C4. Invalid target is rejected: spend_utxos with a target <= 0 raises
\* InvalidAmount and leaves the store as it was.
C4_InvalidTargetRejected ==
    [][ (last'.op = "spend_utxos" /\ last'.amount <= 0)
          => (last'.raised = "InvalidAmount" /\ Store' = Store) ]_vars

\* the store's outputs with the shards in shard-key order
RECURSIVE KeyOrder(_, _)
KeyOrder(store, ids) ==
    IF ids = {} THEN <<>>
    ELSE LET m == CHOOSE x \in ids : \A y \in ids : x <= y
         IN ShardUtxos(store, m) \o KeyOrder(store, ids \ {m})

IterationOrder(kind, store) ==
    IF kind = "AlephiumWallet"
    THEN KeyOrder(store, { store[i].shard_id : i \in 1..Len(store) })
    ELSE store

\* the length of the shortest prefix of us whose amounts add up to target
ShortestPrefix(us, target) ==
    CHOOSE k \in 0..Len(us) :
        /\ SumAmounts(SubSeq(us, 1, k)) >= target
        /\ \A j \in 0..(k - 1) : SumAmounts(SubSeq(us, 1, j)) < target

\* C5. First-fit accumulate: the inputs of a successful spend_utxos are the
\* shortest prefix of the store's iteration order (shards in shard-key order,
\* insertion order within a shard) that covers the target, and every output after
\* that prefix is still in the store.  Stated for positive targets and stores that
\* hold positive amounts only.
C5_FirstFitPrefix ==
    [][ (SpendSucceeded(last') /\ last'.amount > 0 /\ AllPositive(StoreUtxos(wallet, Store)))
          => LET order == IterationOrder(wallet, Store)
                 k == ShortestPrefix(order, last'.amount)
             IN /\ last'.inputs = SubSeq(order, 1, k)
                /\ \A i \in (k + 1)..Len(order) :
                      order[i] \in Range(StoreUtxos(wallet, Store')) ]_vars

\* C6. Store balance after a successful spend_utxos to a foreign recipient: the
\* recipient output is not in the store, the change output (if any) is, and the
\* balance is the old balance minus the inputs plus the change.  Stated for
\* positive targets and stores that hold positive amounts only.
C6_BalanceAfterSelect ==
    [][ (SpendSucceeded(last') /\ last'.amount > 0 /\ AllPositive(StoreUtxos(wallet, Store))
         /\ last'.recipient_address \notin OwnAddresses)
          => /\ last'.ret[1] \notin Range(StoreUtxos(wallet, Store'))
             /\ Range(last'.change) \subseteq Range(StoreUtxos(wallet, Store'))
             /\ get_balance(wallet, Store') =
                  get_balance(wallet, Store) - SumAmounts(last'.inputs)
                    + SumAmounts(last'.change) ]_vars

\* C7. Concurrent selectors never share an input: two spend_utxos calls (positive
\* targets) that both return hold no output in common.
C7_NoSharedInput ==
    \A t1, t2 \in Threads :
        (t1 # t2 /\ pc[t1] = "done" /\ pc[t2] = "done"
         /\ frame[t1].amount > 0 /\ frame[t2].amount > 0
         /\ AllPositive(frame[t1].selected) /\ AllPositive(frame[t2].selected))
          => Range(frame[t1].selected) \cap Range(frame[t2].selected) = {}

\* C8. Idempotent reconcile: from every reachable store and for every fetched
\* snapshot, syncing twice with the same snapshot leaves the store as the first
\* sync left it.
C8_IdempotentReconcile ==
    (wallet = "AlephiumWallet" /\ addresses.present) =>
        \A fetched \in Fetched :
            LET once == SyncLoop(sharded_utxos, hashseed, addresses.value, fetched)
            IN SyncLoop(once, hashseed, addresses.value, fetched) = once

\* a sync_wallet has run on a store and left outputs in it
C8_Witness ==
    /\ last.op = "sync_wallet" /\ last.raised = "None"
    /\ Len(AllUtxos(sharded_utxos)) >= 2

\* the address whose snapshot sync_wallet writes last, and that snapshot
LastAddress == addresses.value[Len(addresses.value)]

\* C9. Reconcile result for the synced address: after a sync_wallet with no plan
\* in flight, the store's outputs of the address synced last are the fetched
\* outputs with a positive amount, and the balance held for it is their sum.
\* Stated for snapshots of positive amounts.
C9_ReconcileResult ==
    [][ \A fetched \in Fetched :
          (sync_wallet(fetched) /\ addresses.present /\ pending = {}
           /\ AllPositive(fetched[Len(fetched)]))
            => LET want == SelectSeq(fetched[Len(fetched)], LAMBDA u : u.amount > 0)
               IN /\ OwnedBy(sharded_utxos', LastAddress) = Range(want)
                  /\ BalanceOf(sharded_utxos', LastAddress) = SumAmounts(want) ]_vars

\* C10. Balance monotonicity under reconcile: when the fetched snapshot of an
\* address holds every output the store holds for it, the balance held for the
\* address does not drop.  Stated for snapshots of positive amounts.
C10_BalanceMonotone ==
    [][ \A fetched \in Fetched :
          (sync_wallet(fetched) /\ addresses.present
           /\ AllPositive(fetched[Len(fetched)])
           /\ OwnedBy(sharded_utxos, LastAddress) \subseteq Range(fetched[Len(fetched)]))
            => BalanceOf(sharded_utxos', LastAddress) >= BalanceOf(sharded_utxos, LastAddress)
      ]_vars

\* C11. Positive-amount invariant: every output in the store has amount > 0, and
\* a create_utxo with amount <= 0 fails with InvariantViolation.
C11_PositiveAmounts ==
    /\ AllPositive(StoreUtxos(wallet, Store))
    /\ (last.op = "create_utxo" /\ last.amount <= 0) => last.raised = "InvariantViolation"

\* C12. Bad fetched records are skipped, not fatal: a sync_wallet whose snapshots
\* hold an output of amount <= 0 does not fail, does not store that output, and
\* stores the positive outputs fetched for the address synced last (stated for
\* outputs whose transaction id is the only one of its kind in the snapshot).
C12_BadRecordsSkipped ==
    [][ \A fetched \in Fetched :
          (sync_wallet(fetched) /\ addresses.present
           /\ \E k \in 1..Len(fetched) : ~AllPositive(fetched[k]))
            => /\ last'.raised = "None"
               /\ \A k \in 1..Len(fetched) : \A u \in Range(fetched[k]) :
                     u.amount <= 0 => u \notin Range(AllUtxos(sharded_utxos'))
               /\ \A u \in Range(fetched[Len(fetched)]) :
                     (u.amount > 0 /\ \A v \in Range(fetched[Len(fetched)]) :
                                         v.txid = u.txid => v = u)
                       => u \in Range(AllUtxos(sharded_utxos')) ]_vars

\* C13. Reconcile frame condition across addresses: a sync_wallet removes no
\* output owned by an address it does not sync, and the output fetched for one
\* synced address survives the sync of the addresses after it, also when they
\* share a shard.  Stated for snapshots of at most one output, of positive amount,
\* per address.
C13_ReconcileFrame ==
    [][ \A fetched \in Fetched :
          (sync_wallet(fetched) /\ addresses.present
           /\ \A k \in 1..Len(fetched) : Len(fetched[k]) <= 1 /\ AllPositive(fetched[k]))
            => /\ \A u \in Range(AllUtxos(sharded_utxos)) :
                     u.recipient \notin Range(addresses.value)
                       => u \in Range(AllUtxos(sharded_utxos'))
               /\ \A k \in 1..Len(fetched) :
                     Range(fetched[k]) \subseteq Range(AllUtxos(sharded_utxos')) ]_vars

\* C14. Reconcile does not overwrite known outputs: an output of the store whose
\* identifier is in the fetched snapshot is in the store, with the same fields,
\* after sync_wallet, also when the fetched copy carries another amount.  Stated
\* for snapshots of at most one output per address.
C14_KnownOutputsKept ==
    [][ \A fetched \in Reported :
          (sync_wallet(fetched) /\ addresses.present
           /\ \A k \in 1..Len(fetched) : Len(fetched[k]) <= 1)
            => \A u \in Range(AllUtxos(sharded_utxos)) :
                  (\E k \in 1..Len(fetched) : Identifier(u) \in Identifiers(fetched[k]))
                    => u \in Range(AllUtxos(sharded_utxos')) ]_vars

\* every output of the store lies in the shard of its owning address
Placed(store) ==
    \A i \in 1..Len(store) : \A u \in Range(store[i].utxos) :
        store[i].shard_id = determine_shard_id(hashseed, u.recipient)

\* C15. Shard placement invariant: every output of the sharded store lies in the
\* shard determine_shard_id gives for its owning address; so does the change
\* output of spend_utxos, owned by the wallet's return address.  Stated as the
\* step every call but a spend_utxos with a target <= 0 has to keep.
C15_ShardPlacement ==
    [][ (wallet = "AlephiumWallet" /\ Placed(sharded_utxos)
         /\ (last'.op = "spend_utxos" => last'.amount > 0))
          => Placed(sharded_utxos') ]_vars

\* C16. Change rule: the plan of a successful spend_utxos has a change output
\* exactly when its inputs add up to more than the target; the change output
\* carries the difference and is in the store.  Stated for positive targets.
C16_ChangeRule ==
    (SpendSucceeded(last) /\ last.amount > 0) =>
        /\ (last.change # <<>>) <=> (SumAmounts(last.inputs) > last.amount)
        /\ last.change # <<>> =>
              /\ Len(last.change) = 1
              /\ last.change[1].amount = SumAmounts(last.inputs) - last.amount
              /\ last.change[1].amount > 0
              /\ last.change[1] \in Range(StoreUtxos(wallet, Store))

C18_IdentifiedByTxidAndIndex ==
    [][ \A fetched \in Fetched :
          (sync_wallet(fetched) /\ addresses.present
           /\ AllPositive(fetched[Len(fetched)]))
            => \A u, v \in Range(fetched[Len(fetched)]) :
                  (u.txid = v.txid /\ u.index # v.index)
                    => /\ {u, v} \subseteq OwnedBy(sharded_utxos', LastAddress)
                       /\ BalanceOf(sharded_utxos', LastAddress) >= u.amount + v.amount ]_vars

\* the step an abandon of the plan in flight would be: the plan's inputs are in
\* the store again and nothing is pending
AbandonEffect ==
    /\ pending' = {}
    /\ Range(last.inputs) \subseteq Range(StoreUtxos(wallet, Store'))

\* C19. Abandon undoes select: while the plan of a successful spend_utxos is in
\* flight the wallet has an operation that puts the plan's inputs back into the
\* store and clears them from the pending set.
C19_AbandonUndoesSelect ==
    (SpendSucceeded(last) /\ last.amount > 0 /\ pending # {}) => ENABLED (Next /\ AbandonEffect)

\* C20. Creating an output never destroys stored value: the output a create_utxo
\* with a positive amount stores has an identifier the store did not hold, every
\* output the store held is still there, and get_balance() grows by the amount.
\* Stated for stores that hold positive amounts only.
C20_CreateKeepsStoredValue ==
    [][ (last'.op = "create_utxo" /\ last'.amount > 0 /\ AllPositive(StoreUtxos(wallet, Store)))
          => /\ Identifier(last'.ret[1]) \notin Identifiers(StoreUtxos(wallet, Store))
             /\ Range(StoreUtxos(wallet, Store)) \subseteq Range(StoreUtxos(wallet, Store'))
             /\ get_balance(wallet, Store') = get_balance(wallet, Store) + last'.amount ]_vars

====
